---- MODULE Spec2Model ----
(***************************************************************************)
(* A model of reM3's incremental synchronisation (src/sync/pull.py with    *)
(* the retry helper of src/errors.py) and of its organiser                 *)
(* (src/sync/organize.py on the catalog of src/sync/index.py).             *)
(*                                                                         *)
(* Time is counted in whole seconds, sizes in abstract units.  A remote    *)
(* modification time of 0 stands for both "epoch" and "not sent by the     *)
(* server": the code reads either as falsy (`st_mtime or 0`,               *)
(* `if entry.st_mtime:`).                                                  *)
(***************************************************************************)
EXTENDS Integers, Sequences, FiniteSets, TLC

VARIABLES
    remote,       \* the tablet's files: file -> [present, size, mtime]
    local,        \* the destination's files: file -> [present, size, mtime]
    pc,           \* where pull_from_tablet is
    force,        \* the call's force argument
    attempt,      \* retry_on_failure's loop variable
    waits,        \* the time.sleep() calls of this call, in order
    lastError,    \* the exception of the last failed attempt
    stats,        \* the call's SyncStats
    stack,        \* the activations of _download_recursive_sftp
    decision,     \* (should_download, reason) of the entry being handled
    outcome,      \* history: what the loop did with each file entry in this call
    reasons,      \* history: the reason the decision gave for each file entry
    failedDirs,   \* history: the directories whose listing raised
    netFailure,   \* history: a connection-level failure hit the walk of this call
    needAtCall,   \* history: the files the decision held true for at the call
    connects,     \* history: client.connect() calls of this call
    listings,     \* history: sftp.listdir_attr() calls of this call
    transfers,    \* history: sftp.get() calls of this call
    prevClean,    \* history: the previous call returned and the remote is as it left it
    prevErrors,   \* history: stats.errors of the previous call
    changedSince, \* history: the remote changed since the last call ended
    changes,      \* remote changes made so far
    faults,       \* per-entry failures injected so far
    meta,         \* raw_dir: node -> its sidecar record and source artifact
    catalog,      \* raw_dir.parent / "catalog.json"
    destFs,       \* dest_root and what is under it: path -> entry
    orgPc,        \* where organize_files is
    include_trash,      \* the call's include_trash argument
    clear_dest,         \* the call's clear_dest argument
    documents,          \* _load_catalog_data's documents
    collections,        \* _load_catalog_data's collections
    collection_paths,   \* _build_collection_paths' result so far
    organized_paths,    \* _organize_documents' result so far
    idx,          \* the index of the running loop
    written,      \* history: what this call created under dest_root
    edits,        \* record changes made so far
    listing,      \* the order raw_dir.glob gave this call, if it was called
    do_copy,      \* the call's do_copy argument
    rebuild,      \* history: this call repeats the one before, both clearing
    prevTree,     \* history: dest_root as the call before left it
    prevMap,      \* history: the map the call before returned
    legPc,        \* where organize_files of src/organize.py is
    legArgs,      \* its arguments and the order glob gave it
    legNodes,     \* its nodes, in the order of nodes.items()
    legIdx,       \* the index of its loop
    legPaths,     \* its organized_paths so far
    legacyFs,     \* its dest_root and what is under it
    legCalls,     \* calls made so far
    legSeen,      \* history: raw_dir's records as the last call saw them
    legRepeat,    \* history: this call repeats the one before, neither clearing
    legPrevTree,  \* history: its dest_root as the call before left it
    legPrevMap,   \* history: the map the call before returned
    sanInput,     \* the name given to sanitize_name
    sanOutput,    \* what sanitize_name returned for it, once it has
    pipeArgs,     \* the pipeline that was invoked, and its arguments
    pipePc,       \* where the pipeline is
    pipeStage,    \* the number of the stage it is at
    pipeLog,      \* history: the stage calls made, and how each ended
    pipeResult,   \* what the pipeline returned, or the exit code, or the error
    conPc,        \* where each of the concurrent calls of pull_from_tablet is
    conForce,     \* each call's force argument
    conIdx,       \* each call's place in the remote tree's file entries
    conDecision,  \* each call's (should_download, reason) for its entry
    conStats,     \* each call's SyncStats
    conReasons,   \* history: the reason each call's decision gave for each file
    plcInput,     \* a document's title and type and its collections' names
    plcOutput     \* the directory and the destination path computed for it

pullVars == <<remote, local, pc, force, attempt, waits, lastError, stats, stack,
              decision, outcome, reasons, failedDirs, netFailure, needAtCall, connects,
              listings, transfers, prevClean, prevErrors, changedSince, changes,
              faults>>

orgVars == <<meta, catalog, destFs, orgPc, include_trash, clear_dest, documents,
             collections, collection_paths, organized_paths, idx, written, edits,
             listing, do_copy, rebuild, prevTree, prevMap>>

\* What the pull leaves alone, and what the organiser leaves alone
legacyVars == <<legPc, legArgs, legNodes, legIdx, legPaths, legacyFs, legCalls,
                legSeen, legRepeat, legPrevTree, legPrevMap>>

sanVars == <<sanInput, sanOutput>>

pipeVars == <<pipeArgs, pipePc, pipeStage, pipeLog, pipeResult>>

conVars == <<conPc, conForce, conIdx, conDecision, conStats, conReasons>>

plcVars == <<plcInput, plcOutput>>

notPullVars == <<orgVars, legacyVars, sanVars, pipeVars, conVars, plcVars>>
notOrgVars == <<pullVars, legacyVars, sanVars, pipeVars, conVars, plcVars>>
notLegacyVars == <<pullVars, orgVars, sanVars, pipeVars, conVars, plcVars>>
notSanVars == <<pullVars, orgVars, legacyVars, pipeVars, conVars, plcVars>>
notPipeVars == <<pullVars, orgVars, legacyVars, sanVars, conVars, plcVars>>
notPlcVars == <<pullVars, orgVars, legacyVars, sanVars, pipeVars, conVars>>

\* What two concurrent calls leave alone: all but the destination's files
notConVars == <<remote, pc, force, attempt, waits, lastError, stats, stack,
                decision, outcome, reasons, failedDirs, netFailure, needAtCall,
                connects, listings, transfers, prevClean, prevErrors,
                changedSince, changes, faults,
                orgVars, legacyVars, sanVars, pipeVars, plcVars>>

vars == <<pullVars, orgVars, legacyVars, sanVars, pipeVars, conVars, plcVars>>

\* ------------------------------------------------------------------ bounds
NFiles == 4
MaxSize == 2
MaxTime == 3
MaxChanges == 1
MaxFaults == 1

\* ------------------------------------------------------- program constants
MaxRetries == 3
Tolerance == 1

Files == 1..NFiles
Sizes == 1..MaxSize
Times == 0..MaxTime
\* The wall clock when a local file is written: never within the tolerance of
\* the epoch.
NowTimes == (Tolerance + 1)..MaxTime

Absent == [present |-> FALSE, size |-> 0, mtime |-> 0]
FileAt(s, t) == [present |-> TRUE, size |-> s, mtime |-> t]

\* ------------------------------------------------------- the remote tree
\* The tablet's tree: the root holds file 1, the directory "sub" and file 2,
\* in listing order; "sub" holds the files from 3 on.
FileEntry(f) == [kind |-> "file", file |-> f, dir |-> "none"]
DirEntry(d) == [kind |-> "dir", file |-> 0, dir |-> d]

Layout(d) ==
    IF d = "root"
    THEN <<FileEntry(1), DirEntry("sub"), FileEntry(2)>>
    ELSE [i \in 1..(NFiles - 2) |-> FileEntry(i + 2)]

\* A listing that still gives the entries of files the tablet no longer has
IsListedOrGone(e) == TRUE

IsListed(e) == e.kind = "dir" \/ remote[e.file].present

\* sftp.listdir_attr(remote_root): the entries that exist, in listing order.
ListDirAttr(d) == SelectSeq(Layout(d), IsListed)

RemoteFiles == {f \in Files : remote[f].present}

\* ------------------------------------------------- _should_download_file
Abs(x) == IF x < 0 THEN -x ELSE x

ShouldDownloadFileLate(forced, loc, rem, statOk) ==
    IF forced THEN [should |-> TRUE, reason |-> "forced"]
    ELSE IF ~loc.present THEN [should |-> TRUE, reason |-> "new file"]
    ELSE IF ~statOk THEN [should |-> TRUE, reason |-> "check failed"]
    ELSE IF rem.size # loc.size THEN [should |-> TRUE, reason |-> "size changed"]
    ELSE IF Abs(rem.mtime - loc.mtime) > Tolerance + 1
         THEN [should |-> TRUE, reason |-> "modified"]
    ELSE [should |-> FALSE, reason |-> "unchanged"]

ShouldDownloadFile(forced, loc, rem, statOk) ==
    IF forced THEN [should |-> TRUE, reason |-> "forced"]
    ELSE IF ~loc.present THEN [should |-> TRUE, reason |-> "new file"]
    ELSE IF ~statOk THEN [should |-> TRUE, reason |-> "check failed"]
    ELSE IF rem.size # loc.size THEN [should |-> TRUE, reason |-> "size changed"]
    ELSE IF Abs(rem.mtime - loc.mtime) > Tolerance
         THEN [should |-> TRUE, reason |-> "modified"]
    ELSE [should |-> FALSE, reason |-> "unchanged"]

NoDecision == [file |-> 0, should |-> FALSE, reason |-> "none", statOk |-> TRUE]

\* ------------------------------------------------------------ SyncStats
NewStats == [downloaded |-> 0, skipped |-> 0, errors |-> 0, total_size |-> 0]

\* ------------------------------------------------------ retry_on_failure
WaitTimeDoubled(k) == 2 ^ k

WaitTime(k) == 2 ^ (k - 1)

\* The except branch of retry_on_failure, for an attempt that raised err:
\* re-raise on the last attempt, or else sleep and go round the loop again.
RetryOnFailure(err) ==
    /\ lastError' = err
    /\ IF attempt = MaxRetries
       THEN /\ pc' = "raised"
            /\ UNCHANGED <<attempt, waits>>
       ELSE /\ waits' = Append(waits, WaitTime(attempt))
            /\ attempt' = attempt + 1
            /\ pc' = "connect"

\* ------------------------------------------------------------------ Init
\* The tablet at the start: every file but the last exists, one unit long,
\* written at second 1.
InitialRemote == [f \in Files |-> IF f < NFiles THEN FileAt(1, 1) ELSE Absent]

PullInit ==
    /\ remote = InitialRemote
    /\ local = [f \in Files |-> Absent]
    /\ pc = "idle"
    /\ force = FALSE
    /\ attempt = 0
    /\ waits = <<>>
    /\ lastError = "none"
    /\ stats = NewStats
    /\ stack = <<>>
    /\ decision = NoDecision
    /\ outcome = [f \in Files |-> "none"]
    /\ reasons = [f \in Files |-> "none"]
    /\ failedDirs = {}
    /\ netFailure = FALSE
    /\ needAtCall = {}
    /\ connects = 0
    /\ listings = 0
    /\ transfers = 0
    /\ prevClean = FALSE
    /\ prevErrors = 0
    /\ changedSince = FALSE
    /\ changes = 0
    /\ faults = 0

\* --------------------------------------------------------- the tablet
\* No call is running: none was made yet or the tablet changed since the last
\* one ("idle"), or the last one has just returned or raised.
Between == pc \in {"idle", "returned", "raised"}

\* A file is written on the tablet (created or modified) between two calls.
RemoteWrite ==
    /\ Between
    /\ changes < MaxChanges
    /\ \E f \in Files, s \in Sizes, t \in Times :
         /\ remote[f] # FileAt(s, t)
         /\ remote' = [remote EXCEPT ![f] = FileAt(s, t)]
    /\ changes' = changes + 1
    /\ changedSince' = TRUE
    /\ pc' = "idle"
    /\ UNCHANGED <<local, force, attempt, waits, lastError, stats, stack,
                   decision, outcome, reasons, failedDirs, netFailure, needAtCall,
                   connects, listings, transfers, prevClean, prevErrors, faults,
                   notPullVars>>

\* A file is deleted on the tablet between two calls.
RemoteDelete ==
    /\ Between
    /\ changes < MaxChanges
    /\ \E f \in RemoteFiles : remote' = [remote EXCEPT ![f] = Absent]
    /\ changes' = changes + 1
    /\ changedSince' = TRUE
    /\ pc' = "idle"
    /\ UNCHANGED <<local, force, attempt, waits, lastError, stats, stack,
                   decision, outcome, reasons, failedDirs, netFailure, needAtCall,
                   connects, listings, transfers, prevClean, prevErrors, faults,
                   notPullVars>>

\* ----------------------------------------------------- pull_from_tablet
StartCall(nextPc, nextAttempt, err, forced) ==
    /\ Between
    /\ force' = forced
    /\ pc' = nextPc
    /\ attempt' = nextAttempt
    /\ lastError' = err
    /\ waits' = <<>>
    /\ stats' = NewStats
    /\ stack' = <<>>
    /\ decision' = NoDecision
    /\ outcome' = [f \in Files |-> "none"]
    /\ reasons' = [f \in Files |-> "none"]
    /\ failedDirs' = {}
    /\ netFailure' = FALSE
    /\ needAtCall' = {f \in RemoteFiles :
                        ShouldDownloadFile(forced, local[f], remote[f], TRUE).should}
    /\ connects' = 0
    /\ listings' = 0
    /\ transfers' = 0
    /\ prevClean' = (pc = "returned" /\ ~changedSince)
    /\ prevErrors' = stats.errors
    /\ changedSince' = FALSE
    /\ UNCHANGED <<remote, local, changes, faults, notPullVars>>

\* pull_from_tablet(..., force) with a password: up to retry_on_failure(_do_sync).
Call == \E forced \in BOOLEAN : StartCall("connect", 1, "none", forced)

\* pull_from_tablet without a password: AuthenticationError before any attempt.
CallNoPassword == \E forced \in BOOLEAN : StartCall("raised", 0, "auth", forced)

walkHistory == <<stats, stack, decision, outcome, reasons, failedDirs, netFailure,
                 listings, transfers, faults>>
callFrame == <<remote, local, force, needAtCall, prevClean, prevErrors,
               changedSince, changes, notPullVars>>

\* _do_sync: client.connect(...)
Connect ==
    /\ pc = "connect"
    /\ connects' = connects + 1
    /\ \/ /\ pc' = "open_sftp"
          /\ lastError' = "none"
          /\ UNCHANGED <<attempt, waits>>
       \/ RetryOnFailure("auth")
       \/ RetryOnFailure("conn")
    /\ UNCHANGED <<walkHistory, callFrame>>

\* _do_sync: client.open_sftp()
OpenSftp ==
    /\ pc = "open_sftp"
    /\ \/ /\ pc' = "is_dir"
          /\ UNCHANGED <<attempt, waits, lastError>>
       \/ RetryOnFailure("conn")
    /\ UNCHANGED <<walkHistory, callFrame, connects>>

\* _sftp_is_dir on what sftp.stat(remote_path) gives.
SftpIsDir(rootStat) ==
    CASE rootStat = "dir" -> "true"
      [] rootStat = "file" -> "false"
      [] rootStat = "missing" -> "false"
      [] OTHER -> "SyncError"

\* _do_sync: the check of the remote root, then the walk from it.
CheckRoot ==
    /\ pc = "is_dir"
    /\ \E rootStat \in {"dir", "file", "missing", "error"} :
         CASE SftpIsDir(rootStat) = "true" ->
                /\ pc' = "walk"
                /\ stack' = <<[dir |-> "root", i |-> 0]>>
                /\ UNCHANGED <<attempt, waits, lastError>>
           [] SftpIsDir(rootStat) = "false" ->
                /\ RetryOnFailure("notfound")
                /\ UNCHANGED stack
           [] OTHER ->
                /\ RetryOnFailure("cannotcheck")
                /\ UNCHANGED stack
    /\ UNCHANGED <<stats, decision, outcome, reasons, failedDirs, netFailure,
                   listings, transfers, faults, callFrame, connects>>

\* ----------------------------------------------- _download_recursive_sftp
Top == stack[Len(stack)]
Pop == SubSeq(stack, 1, Len(stack) - 1)
Advance == [stack EXCEPT ![Len(stack)].i = @ + 1]
Entries == ListDirAttr(Top.dir)
InLoop == pc = "walk" /\ stack # <<>> /\ Top.i \in 1..Len(Entries)
Entry == Entries[Top.i]

callState == <<remote, force, attempt, waits, lastError, needAtCall, connects,
               prevClean, prevErrors, changedSince, changes, notPullVars>>

\* sftp.listdir_attr(remote_root) at the head of an activation: the loop
\* starts, or the listing raises, which is counted and ends the activation.
ListDir ==
    /\ pc = "walk" /\ stack # <<>> /\ Top.i = 0
    /\ listings' = listings + 1
    /\ \/ /\ stack' = Advance
          /\ UNCHANGED <<stats, failedDirs, netFailure, faults>>
       \/ /\ faults < MaxFaults
          /\ faults' = faults + 1
          /\ \E net \in BOOLEAN : netFailure' = (netFailure \/ net)
          /\ stats' = [stats EXCEPT !.errors = @ + 1]
          /\ failedDirs' = failedDirs \cup {Top.dir}
          /\ stack' = Pop
    /\ UNCHANGED <<local, pc, decision, outcome, reasons, transfers, callState>>

\* A directory entry: the recursive call, after which the loop goes on.
EnterDir ==
    /\ InLoop /\ Entry.kind = "dir"
    /\ stack' = Append(Advance, [dir |-> Entry.dir, i |-> 0])
    /\ UNCHANGED <<local, pc, stats, decision, outcome, reasons, failedDirs,
                   netFailure, listings, transfers, faults, callState>>

\* A file entry: _should_download_file.  Its stat calls are made, and may
\* raise, only for an unforced call with a local copy.
Decide ==
    /\ InLoop /\ Entry.kind = "file"
    /\ LET f == Entry.file IN
       \E statOk \in BOOLEAN :
         /\ ~statOk => /\ ~force /\ local[f].present
                       /\ faults < MaxFaults
         /\ faults' = IF statOk THEN faults ELSE faults + 1
         /\ LET d == ShouldDownloadFile(force, local[f], remote[f], statOk) IN
            /\ decision' = [file |-> f, should |-> d.should, reason |-> d.reason,
                            statOk |-> statOk]
            /\ reasons' = [reasons EXCEPT ![f] = d.reason]
    /\ pc' = "decided"
    /\ UNCHANGED <<local, stats, stack, outcome, failedDirs, netFailure, listings,
                   transfers, callState>>

\* What a successful sftp.get followed by the os.utime of lines 167-168
\* leaves: the remote size, and the remote time when that is truthy, the
\* time of writing otherwise.
Downloaded(rem, now) ==
    FileAt(rem.size, IF rem.mtime # 0 THEN rem.mtime ELSE now)

\* What a failed sftp.get leaves: the local file as it was, or truncated.
Interrupted(loc, now) == {loc, [present |-> TRUE, size |-> 0, mtime |-> now]}

CountErrorAndStop(f) ==
    /\ stats' = [stats EXCEPT !.errors = @ + 1]
    /\ outcome' = [outcome EXCEPT ![f] = "error"]
    /\ stack' = <<>>
    /\ pc' = "walk"

\* The except branch of the loop: the entry's failure is counted.
CountError(f) ==
    /\ stats' = [stats EXCEPT !.errors = @ + 1]
    /\ outcome' = [outcome EXCEPT ![f] = "error"]
    /\ stack' = Advance
    /\ pc' = "walk"

\* should_download: sftp.get, os.utime, and the counters; or the get raises.
Download ==
    /\ pc = "decided" /\ decision.should
    /\ transfers' = transfers + 1
    /\ LET f == decision.file IN
       \/ /\ \E now \in NowTimes : local' = [local EXCEPT ![f] = Downloaded(remote[f], now)]
          /\ stats' = [stats EXCEPT !.downloaded = @ + 1,
                                    !.total_size = @ + remote[f].size]
          /\ outcome' = [outcome EXCEPT ![f] = "downloaded"]
          /\ stack' = Advance
          /\ pc' = "walk"
          /\ UNCHANGED <<netFailure, faults>>
       \/ /\ faults < MaxFaults
          /\ faults' = faults + 1
          /\ \E net \in BOOLEAN : netFailure' = (netFailure \/ net)
          /\ \E now \in NowTimes :
                \E l \in Interrupted(local[f], now) :
                   local' = [local EXCEPT ![f] = l]
          /\ CountError(f)
    /\ UNCHANGED <<decision, reasons, failedDirs, listings, callState>>

SkipCountedAsDownload ==
    /\ pc = "decided" /\ ~decision.should
    /\ stats' = [stats EXCEPT !.downloaded = @ + 1]
    /\ outcome' = [outcome EXCEPT ![decision.file] = "skipped"]
    /\ stack' = Advance
    /\ pc' = "walk"
    /\ UNCHANGED <<local, decision, reasons, failedDirs, netFailure, listings,
                   transfers, faults, callState>>

\* not should_download: the entry is skipped.
Skip ==
    /\ pc = "decided" /\ ~decision.should
    /\ stats' = [stats EXCEPT !.skipped = @ + 1]
    /\ outcome' = [outcome EXCEPT ![decision.file] = "skipped"]
    /\ stack' = Advance
    /\ pc' = "walk"
    /\ UNCHANGED <<local, decision, reasons, failedDirs, netFailure, listings,
                   transfers, faults, callState>>

\* The loop of an activation ends: back in the caller's loop.
LeaveDir ==
    /\ pc = "walk" /\ stack # <<>> /\ Top.i > Len(Entries)
    /\ stack' = Pop
    /\ UNCHANGED <<local, pc, stats, decision, outcome, reasons, failedDirs,
                   netFailure, listings, transfers, faults, callState>>

\* The walk is over: _do_sync returns, retry_on_failure returns it, and
\* pull_from_tablet returns stats.
Finish ==
    /\ pc = "walk" /\ stack = <<>>
    /\ pc' = "returned"
    /\ UNCHANGED <<local, stats, stack, decision, outcome, reasons, failedDirs,
                   netFailure, listings, transfers, faults, callState>>

PullNext ==
    \/ RemoteWrite
    \/ RemoteDelete
    \/ Call
    \/ CallNoPassword
    \/ Connect
    \/ OpenSftp
    \/ CheckRoot
    \/ ListDir
    \/ EnterDir
    \/ Decide
    \/ Download
    \/ Skip
    \/ LeaveDir
    \/ Finish

\* =====================================================================
\* The organiser: build_index and organize_files
\* =====================================================================
\* A name is a sequence of one-character strings, a path is the sequence of
\* the segments below dest_root, and a uuid is a pair <<kind, number>>.

\* ------------------------------------------------------------- bounds
NDocs == 2
NCols == 2
MaxEdits == 1

\* sanitize_name's limit
NameLimit == 200

\* ---------------------------------------------------------------- ids
DocId(i) == <<"doc", i>>
ColId(i) == <<"col", i>>
RootId == <<"", 0>>             \* the empty parent
TrashId == <<"trash", 0>>       \* the parent "trash"
OrphanId == <<"orphan", 0>>     \* a parent that is no collection's uuid
NoKey == <<"nokey", 0>>         \* the record has no "parent" key
NoOwner == <<"none", 0>>

Docs == {DocId(i) : i \in 1..NDocs}
Cols == {ColId(i) : i \in 1..NCols}
Nodes == Docs \cup Cols

\* ------------------------------------------------------------- names
Draft == <<"D", "r", "a", "f", "t">>
PaddedDraft == <<" ", "D", "r", "a", "f", "t", " ">>
Notes == <<"N", "o", "t", "e", "s">>
Y2024 == <<"2", "0", "2", "4">>
TripPlans == <<"T", "r", "i", "p", " ", "P", "l", "a", "n", "s">>
TrashSegment == <<"t", "r", "a", "s", "h">>
PdfExt == <<".", "p", "d", "f">>
EpubExt == <<".", "e", "p", "u", "b">>

\* The names a changed record may carry
Titles == {Draft, PaddedDraft, Notes}
FolderNames == {Notes, Y2024, Draft}

Whitespace == {" ", "\t", "\n"}

RECURSIVE LStrip(_)
LStrip(s) ==
    IF s # <<>> /\ Head(s) \in Whitespace THEN LStrip(Tail(s)) ELSE s

RECURSIVE RStrip(_)
RStrip(s) ==
    IF s # <<>> /\ s[Len(s)] \in Whitespace
    THEN RStrip(SubSeq(s, 1, Len(s) - 1))
    ELSE s

Strip(s) == RStrip(LStrip(s))

RECURSIVE Replace(_, _, _)
Replace(s, ch, repl) ==
    IF s = <<>> THEN <<>>
    ELSE IF Len(s) = 1 THEN (IF s[1] = ch THEN repl ELSE s)
    ELSE LET half == Len(s) \div 2
         IN  Replace(SubSeq(s, 1, half), ch, repl)
                 \o Replace(SubSeq(s, half + 1, Len(s)), ch, repl)

\* sanitize_name without the cut at NameLimit
sanitize_name_uncut(name) ==
    Replace(Replace(Replace(Strip(name), "/", <<"-">>), "\\", <<"-">>),
            ":", <<" ", "-">>)

sanitize_name(name) ==
    LET stripped == Strip(name)
        replaced == Replace(Replace(Replace(stripped, "/", <<"-">>),
                                    "\\", <<"-">>), ":", <<" ", "-">>)
    IN  IF Len(replaced) > NameLimit
        THEN SubSeq(replaced, 1, NameLimit)
        ELSE replaced

\* ------------------------------------------------------------- paths
DestRoot == <<>>

\* pathlib's dest_dir / segment: an empty or "." segment adds nothing
Join(p, seg) == IF seg \in {<<>>, <<".">>} THEN p ELSE Append(p, seg)

RECURSIVE JoinAll(_, _)
JoinAll(p, segs) ==
    IF segs = <<>> THEN p ELSE JoinAll(Join(p, Head(segs)), Tail(segs))

IsPrefix(p, q) == Len(p) <= Len(q) /\ SubSeq(q, 1, Len(p)) = p

Prefixes(p) == {SubSeq(p, 1, k) : k \in 0..Len(p)}

Parent(p) == SubSeq(p, 1, Len(p) - 1)

\* -------------------------------------------------- the file system
\* An entry is a directory or a file, holds the copy of a document's source or
\* nothing, and is a symbolic link or not.
PlainDir == [dir |-> TRUE, owner |-> NoOwner, link |-> FALSE]
CopyOf(isDir, uuid) == [dir |-> isDir, owner |-> uuid, link |-> FALSE]

Exists(fs, p) == p \in DOMAIN fs
IsDir(fs, p) == Exists(fs, p) /\ fs[p].dir

\* shutil.rmtree(p), p a directory
rmtree(fs, p) == [q \in {r \in DOMAIN fs : ~IsPrefix(p, r)} |-> fs[q]]

\* Path.unlink(p), p a file
unlink(fs, p) == [q \in DOMAIN fs \ {p} |-> fs[q]]

\* mkdir(parents=True, exist_ok=True) raises when p or an ancestor is a file
CanMakeDirs(fs, p) == \A q \in Prefixes(p) : Exists(fs, q) => fs[q].dir

ensure_directory(fs, p) ==
    [q \in DOMAIN fs \cup Prefixes(p) |-> IF Exists(fs, q) THEN fs[q] ELSE PlainDir]

Put(fs, p, entry) == [q \in DOMAIN fs \cup {p} |-> IF q = p THEN entry ELSE fs[q]]

\* ----------------------------------------------------- raw records
\* What raw_dir holds for one uuid: the .metadata record (name, parent), the
\* .content record (fileType) and the artifact the document was pulled as.
FileTypes == {"notebook", "pdf", "epub", "unknown"}
Sources == {"none", "dir", "pdf"}
Parents == Cols \cup {RootId, TrashId, OrphanId}

NoRecord ==
    [present |-> FALSE, parsed |-> FALSE, name |-> <<>>, parent |-> RootId,
     fileType |-> "unknown", source |-> "none"]

DocRecord(name, parent, fileType, source) ==
    [present |-> TRUE, parsed |-> TRUE, name |-> name, parent |-> parent,
     fileType |-> fileType, source |-> source]

\* A .metadata file that read_json cannot parse: meta is {}
Malformed(fileType, source) ==
    [present |-> TRUE, parsed |-> FALSE, name |-> <<>>, parent |-> RootId,
     fileType |-> fileType, source |-> source]

ColRecord(name, parent) == DocRecord(name, parent, "unknown", "none")

RecordsOf(u) ==
    {NoRecord} \cup
    IF u \in Docs
    THEN {DocRecord(n, p, t, s) : n \in Titles, p \in Parents, t \in FileTypes,
                                  s \in Sources}
         \cup {Malformed("notebook", "dir"), Malformed("unknown", "none")}
    ELSE {ColRecord(n, p) : n \in FolderNames, p \in Parents}
         \cup {Malformed("unknown", "none")}

InitialMeta ==
    [u \in Nodes |->
        IF u = ColId(1) THEN ColRecord(Notes, RootId)
        ELSE IF u = ColId(2) THEN ColRecord(Y2024, ColId(1))
        ELSE IF u = DocId(1) THEN DocRecord(Draft, ColId(1), "notebook", "dir")
        ELSE IF u = DocId(2) THEN DocRecord(TripPlans, ColId(2), "pdf", "pdf")
        ELSE NoRecord]

InitialDest ==
    Put(Put(Put([p \in {DestRoot} |-> PlainDir],
                <<Notes>>, PlainDir),
            <<Notes, Draft>>, CopyOf(TRUE, DocId(1))),
        <<Notes, TripPlans \o PdfExt>>, CopyOf(FALSE, DocId(2)))

\* ------------------------------------------------------ the catalog
\* glob's order: sorted by uuid, as build_index sorts it, or the reverse
GlobOrders == {"sorted", "reversed"}

Uuids(ids, n, order) ==
    [i \in 1..n |-> IF order = "sorted" THEN ids[i] ELSE ids[n + 1 - i]]

Listed(m, ids, n, order) ==
    SelectSeq(Uuids(ids, n, order), LAMBDA u : m[u].present)

\* The uuids of all records, in sorted order
AllUuids == [i \in 1..(NCols + NDocs) |->
                IF i <= NCols THEN ColId(i) ELSE DocId(i - NCols)]

\* meta.get("type") == "CollectionType"; an unparsed record has no type
IsCollectionType(m, u) == u \in Cols /\ m[u].parsed

ListedCollections(m, order) ==
    SelectSeq(Listed(m, AllUuids, NCols + NDocs, order),
              LAMBDA u : IsCollectionType(m, u))

ListedDocuments(m, order) ==
    SelectSeq(Listed(m, AllUuids, NCols + NDocs, order),
              LAMBDA u : ~IsCollectionType(m, u))

UntitledDocument == <<"U", "n", "t", "i", "t", "l", "e", "d", " ",
                      "D", "o", "c", "u", "m", "e", "n", "t">>

\* meta.get("visibleName", "Untitled Document")
VisibleName(m, u) == IF m[u].parsed THEN m[u].name ELSE UntitledDocument

IndexDocument(m, u) ==
    [uuid |-> u, title |-> VisibleName(m, u), type |-> m[u].fileType,
     parent |-> m[u].parent, is_trashed |-> m[u].parent = TrashId]

IndexCollection(m, u) ==
    [uuid |-> u, name |-> m[u].name, parent |-> m[u].parent]

NoCatalog == [exists |-> FALSE, documents |-> <<>>, collections |-> <<>>]

BuildIndex(m) ==
    LET docs == ListedDocuments(m, "sorted")
        cols == ListedCollections(m, "sorted")
    IN  [exists |-> TRUE,
         documents |-> [i \in 1..Len(docs) |-> IndexDocument(m, docs[i])],
         collections |-> [i \in 1..Len(cols) |-> IndexCollection(m, cols[i])]]

SimpleDocument(m, u) ==
    [uuid |-> u, title |-> VisibleName(m, u), type |-> m[u].fileType,
     parent |-> NoKey, is_trashed |-> m[u].parent = TrashId]

SimpleCollection(m, u) ==
    [uuid |-> u, name |-> m[u].name, parent |-> NoKey,
     is_trashed |-> m[u].parent = TrashId]

build_simple_catalog(m, order) ==
    LET docs == ListedDocuments(m, order)
        cols == ListedCollections(m, order)
    IN  [documents |-> [i \in 1..Len(docs) |-> SimpleDocument(m, docs[i])],
         collections |-> [i \in 1..Len(cols) |-> SimpleCollection(m, cols[i])]]

load_catalog_data(cat, m, order) ==
    IF cat.exists
    THEN [documents |-> cat.documents, collections |-> cat.collections]
    ELSE build_simple_catalog(m, order)

\* record.get("parent", ""): a record without the key reads as the empty parent
GetParent(rec) == IF rec.parent = NoKey THEN RootId ELSE rec.parent

\* ----------------------------------------------- collection paths
InMap(cols, u) == \E i \in 1..Len(cols) : cols[i].uuid = u
collection_map(cols, u) == cols[CHOOSE i \in 1..Len(cols) : cols[i].uuid = u]

NonePath == [found |-> FALSE, path |-> <<>>]

\* The walk without the visited test, cut off one segment past the number of
\* collections
RECURSIVE WalkUpRevisiting(_, _, _, _)
WalkUpRevisiting(cols, current, visited, path) ==
    IF current = RootId \/ ~InMap(cols, current) \/ Len(path) > Len(cols)
    THEN [found |-> TRUE, path |-> path]
    ELSE LET col == collection_map(cols, current)
         IN  IF col.parent = TrashId
             THEN NonePath
             ELSE WalkUpRevisiting(cols, GetParent(col), visited \cup {current},
                                   <<sanitize_name(col.name)>> \o path)

\* The walk giving no path when it comes to an id that is no collection's
RECURSIVE WalkUpDroppingOrphans(_, _, _, _)
WalkUpDroppingOrphans(cols, current, visited, path) ==
    IF current = RootId \/ current \in visited
    THEN [found |-> TRUE, path |-> path]
    ELSE IF ~InMap(cols, current)
    THEN NonePath
    ELSE LET col == collection_map(cols, current)
         IN  IF col.parent = TrashId
             THEN NonePath
             ELSE WalkUpDroppingOrphans(cols, GetParent(col), visited \cup {current},
                                        <<sanitize_name(col.name)>> \o path)

RECURSIVE WalkUp(_, _, _, _)
WalkUp(cols, current, visited, path) ==
    IF current = RootId \/ ~InMap(cols, current) \/ current \in visited
    THEN [found |-> TRUE, path |-> path]
    ELSE LET col == collection_map(cols, current)
         IN  IF col.parent = TrashId
             THEN NonePath
             ELSE WalkUp(cols, GetParent(col), visited \cup {current},
                         <<sanitize_name(col.name)>> \o path)

resolve_collection_path(cols, collection_uuid) ==
    WalkUp(cols, collection_uuid, {}, <<>>)

\* ------------------------------------------------------ documents
SkipNoDocument(doc, trash) == FALSE

\* _find_source_file answering with a path whether or not the artifact is there
find_source_file_unchecked(m, uuid, doc_type) ==
    IF doc_type = "notebook" THEN "dir" ELSE "pdf"

\* The test that leaves a trashed document out
SkipTrashed(doc, trash) == doc.is_trashed /\ ~trash

find_source_file(m, uuid, doc_type) ==
    IF doc_type = "notebook"
    THEN IF m[uuid].source = "dir" THEN "dir" ELSE "none"
    ELSE IF m[uuid].source \in {"pdf", "epub"} THEN m[uuid].source ELSE "none"

determine_destination_dir(parent, paths, fs, trash) ==
    IF parent # RootId /\ parent \in DOMAIN paths
    THEN [kind |-> "dir", path |-> paths[parent], fs |-> fs]
    ELSE IF parent = TrashId
    THEN IF ~trash
         THEN [kind |-> "none", path |-> DestRoot, fs |-> fs]
         ELSE IF CanMakeDirs(fs, <<TrashSegment>>)
              THEN [kind |-> "dir", path |-> <<TrashSegment>>,
                    fs |-> ensure_directory(fs, <<TrashSegment>>)]
              ELSE [kind |-> "raise", path |-> DestRoot, fs |-> fs]
    ELSE [kind |-> "dir", path |-> DestRoot, fs |-> fs]

create_destination_path(dest_dir, title, doc_type) ==
    LET clean_title == sanitize_name(title)
        ext == IF doc_type = "pdf" THEN PdfExt
               ELSE IF doc_type = "epub" THEN EpubExt ELSE <<>>
    IN  IF doc_type = "notebook"
        THEN Join(dest_dir, clean_title)
        ELSE Join(dest_dir, clean_title \o ext)

\* The result of _copy_document: whether it returned True, the file system it
\* left, and the file system as it was just before the copy itself.
copy_document(fs, src, dest_path, uuid) ==
    IF src = "dir"
    THEN IF Exists(fs, dest_path) /\ ~IsDir(fs, dest_path)
         THEN [ok |-> FALSE, fs |-> fs, before |-> fs]
         ELSE LET cleared == IF Exists(fs, dest_path) THEN rmtree(fs, dest_path)
                                                      ELSE fs
              IN  IF CanMakeDirs(cleared, dest_path)
                  THEN [ok |-> TRUE,
                        fs |-> Put(ensure_directory(cleared, dest_path), dest_path,
                                   CopyOf(TRUE, uuid)),
                        before |-> cleared]
                  ELSE [ok |-> FALSE, fs |-> cleared, before |-> cleared]
    ELSE IF IsDir(fs, dest_path)
         THEN [ok |-> FALSE, fs |-> fs, before |-> fs]
         ELSE LET cleared == IF Exists(fs, dest_path) THEN unlink(fs, dest_path)
                                                      ELSE fs
              IN  IF dest_path # DestRoot /\ IsDir(cleared, Parent(dest_path))
                  THEN [ok |-> TRUE,
                        fs |-> Put(cleared, dest_path, CopyOf(FALSE, uuid)),
                        before |-> cleared]
                  ELSE [ok |-> FALSE, fs |-> cleared, before |-> cleared]

\* What a step made: the paths that are new or hold something new
Created(before, after, who) ==
    {<<p, who>> : p \in {q \in DOMAIN after :
                            ~Exists(before, q) \/ before[q] # after[q]}}

\* -------------------------------------------------------- actions
NoPaths == [u \in {} |-> DestRoot]
NoTree == [p \in {} |-> PlainDir]

OrgInit ==
    /\ meta = InitialMeta
    /\ catalog = NoCatalog
    /\ destFs = InitialDest
    /\ orgPc = "idle"
    /\ include_trash = FALSE
    /\ clear_dest = FALSE
    /\ documents = <<>>
    /\ collections = <<>>
    /\ collection_paths = NoPaths
    /\ organized_paths = NoPaths
    /\ idx = 0
    /\ written = {}
    /\ edits = 0
    /\ listing = "none"
    /\ do_copy = TRUE
    /\ rebuild = FALSE
    /\ prevTree = NoTree
    /\ prevMap = NoPaths

\* organize_files is not running
AtRest == orgPc \in {"idle", "returned", "raised"}

\* organize_files of src/organize.py is not running
LegacyAtRest == legPc \in {"idle", "returned", "raised", "looping"}

runState == <<include_trash, clear_dest, documents, collections,
              collection_paths, organized_paths, idx, written, listing, do_copy,
              rebuild, prevTree, prevMap>>

callArgs == <<include_trash, clear_dest, documents, collections, listing,
              do_copy, rebuild, prevTree, prevMap>>

\* The last call's locals are gone once raw_dir or the catalog changes
Forgotten ==
    /\ orgPc' = "idle"
    /\ include_trash' = FALSE
    /\ clear_dest' = FALSE
    /\ documents' = <<>>
    /\ collections' = <<>>
    /\ collection_paths' = NoPaths
    /\ organized_paths' = NoPaths
    /\ idx' = 0
    /\ written' = {}
    /\ listing' = "none"
    /\ do_copy' = TRUE
    /\ rebuild' = FALSE
    /\ prevTree' = NoTree
    /\ prevMap' = NoPaths

\* A pull changes what raw_dir holds for one uuid: a record arrives, goes or
\* is replaced.
EditRecord ==
    /\ AtRest
    /\ LegacyAtRest
    /\ edits < MaxEdits
    /\ \E u \in Nodes :
          \E r \in RecordsOf(u) :
             /\ r # meta[u]
             /\ meta' = [meta EXCEPT ![u] = r]
    /\ edits' = edits + 1
    /\ Forgotten
    /\ UNCHANGED <<catalog, destFs, notOrgVars>>

build_index ==
    /\ AtRest
    /\ catalog' = BuildIndex(meta)
    /\ Forgotten
    /\ UNCHANGED <<meta, destFs, edits, notOrgVars>>

\* What raw_dir.glob can give a call: nothing when catalog.json is there and
\* glob is not called, the order of the call before when that call listed the
\* same directory, any order otherwise.
GlobCalls(cat, last) ==
    IF cat.exists THEN {"none"}
    ELSE IF last \in GlobOrders THEN {last}
    ELSE GlobOrders

KeepDest(fs, clear) == fs

\* A clearing that removes the copies under dest_root and keeps the directories
ClearCopies(fs, clear) ==
    IF clear THEN [q \in {r \in DOMAIN fs : fs[r].owner = NoOwner} |-> fs[q]] ELSE fs

\* if clear_dest and dest_root.exists(): shutil.rmtree(dest_root)
ClearDest(fs, clear) ==
    IF clear /\ Exists(fs, DestRoot) THEN rmtree(fs, DestRoot) ELSE fs

\* organize_files up to the first collection: clears and makes dest_root and
\* loads the catalog.
organize_files ==
    /\ AtRest
    /\ \E copy \in BOOLEAN, trash \in BOOLEAN, clear \in BOOLEAN,
          order \in GlobCalls(catalog, listing) :
          LET loaded == load_catalog_data(catalog, meta, order)
              again == /\ orgPc = "returned"
                       /\ clear_dest /\ clear
                       /\ trash = include_trash
                       /\ copy = do_copy
          IN  /\ do_copy' = copy
              /\ include_trash' = trash
              /\ clear_dest' = clear
              /\ listing' = order
              /\ destFs' = ensure_directory(ClearDest(destFs, clear), DestRoot)
              /\ rebuild' = again
              /\ prevTree' = IF again THEN destFs ELSE NoTree
              /\ prevMap' = IF again THEN organized_paths ELSE NoPaths
              /\ documents' = loaded.documents
              /\ collections' = loaded.collections
              /\ orgPc' = IF loaded.collections = <<>> THEN "documents"
                                                      ELSE "collections"
    /\ collection_paths' = NoPaths
    /\ organized_paths' = NoPaths
    /\ idx' = 1
    /\ written' = {}
    /\ UNCHANGED <<meta, catalog, edits, notOrgVars>>

\* After the body of a loop: on to the next item, or to the next loop
NextItem(items) ==
    IF idx < Len(items)
    THEN idx' = idx + 1 /\ UNCHANGED orgPc
    ELSE idx' = 1 /\ orgPc' = "documents"

\* One iteration of _build_collection_paths' loop
CollectionStep ==
    /\ orgPc = "collections"
    /\ LET collection == collections[idx]
           col_path == resolve_collection_path(collections, collection.uuid)
           full_path == JoinAll(DestRoot, col_path.path)
       IN  IF (collection.parent = TrashId /\ ~include_trash)
              \/ ~col_path.found \/ col_path.path = <<>>
           THEN /\ NextItem(collections)
                /\ UNCHANGED <<destFs, collection_paths, written>>
           ELSE IF CanMakeDirs(destFs, full_path)
           THEN /\ destFs' = ensure_directory(destFs, full_path)
                /\ collection_paths' =
                       [u \in DOMAIN collection_paths \cup {collection.uuid} |->
                           IF u = collection.uuid THEN full_path
                                                  ELSE collection_paths[u]]
                /\ written' = written \cup Created(destFs, destFs', collection.uuid)
                /\ NextItem(collections)
           ELSE /\ orgPc' = "raised"
                /\ UNCHANGED <<destFs, collection_paths, written, idx>>
    /\ UNCHANGED <<meta, catalog, callArgs, organized_paths, edits, notOrgVars>>

\* One iteration of _organize_documents' loop
DocumentStep ==
    /\ orgPc = "documents"
    /\ idx <= Len(documents)
    /\ LET doc == documents[idx]
           uuid == doc.uuid
           src_path == find_source_file(meta, uuid, doc.type)
           dest_dir == determine_destination_dir(GetParent(doc), collection_paths,
                                                 destFs, include_trash)
           dest_path == create_destination_path(dest_dir.path, doc.title, doc.type)
           copied == copy_document(dest_dir.fs, src_path, dest_path, uuid)
       IN  IF SkipTrashed(doc, include_trash) \/ src_path = "none"
           THEN /\ idx' = idx + 1
                /\ UNCHANGED <<destFs, orgPc, organized_paths, written>>
           ELSE IF dest_dir.kind = "raise"
           THEN /\ orgPc' = "raised"
                /\ UNCHANGED <<destFs, organized_paths, written, idx>>
           ELSE IF dest_dir.kind = "none"
           THEN /\ idx' = idx + 1
                /\ UNCHANGED <<destFs, orgPc, organized_paths, written>>
           ELSE /\ destFs' = copied.fs
                /\ written' = written \cup Created(destFs, dest_dir.fs, uuid)
                                      \cup Created(copied.before, copied.fs, uuid)
                /\ organized_paths' =
                       IF copied.ok
                       THEN [u \in DOMAIN organized_paths \cup {uuid} |->
                                IF u = uuid THEN dest_path ELSE organized_paths[u]]
                       ELSE organized_paths
                /\ idx' = idx + 1
                /\ UNCHANGED orgPc
    /\ UNCHANGED <<meta, catalog, callArgs, collection_paths, edits, notOrgVars>>

\* organize_files returns organized_paths
Return ==
    /\ orgPc = "documents"
    /\ idx > Len(documents)
    /\ orgPc' = "returned"
    /\ UNCHANGED <<meta, catalog, destFs, runState, edits, notOrgVars>>

OrganizeNext ==
    \/ EditRecord
    \/ build_index
    \/ organize_files
    \/ CollectionStep
    \/ DocumentStep
    \/ Return

\* =====================================================================
\* The older organiser: organize_files of src/organize.py
\* =====================================================================
\* It reads raw_dir's records itself and places, under its own destination,
\* a link or a copy for every document and a directory for every collection.

\* ------------------------------------------------------------- bounds
MaxLegacyCalls == 2
MaxWalk == 6           \* segments after which a walk is taken to go on for ever
MaxSuffix == 9         \* highest " (n)" tried by choose_unique_path

Digits == <<"1", "2", "3", "4", "5", "6", "7", "8", "9">>

\* cur.get("uuid"), as text
UuidText(u) == <<u[1], Digits[u[2]]>>

\* _build_nodes: one node for every .metadata, in glob's order
LegacyNode(m, u) ==
    [uuid |-> u,
     name |-> m[u].name,
     type |-> IF ~m[u].parsed THEN ""
              ELSE IF u \in Cols THEN "CollectionType" ELSE "DocumentType",
     parent |-> m[u].parent]

build_nodes(m, order) ==
    LET listed == Listed(m, AllUuids, NCols + NDocs, order)
    IN  [i \in 1..Len(listed) |-> LegacyNode(m, listed[i])]

HasNode(nodes, u) == \E i \in 1..Len(nodes) : nodes[i].uuid = u
NodeOf(nodes, u) == nodes[CHOOSE i \in 1..Len(nodes) : nodes[i].uuid = u]

\* cur.get("name") or cur.get("uuid") or uuid
NameOrUuid(node) == IF node.name # <<>> THEN node.name ELSE UuidText(node.uuid)

\* The while loop of _resolve_collection_path, from the node cur on, with the
\* segments and the trash flag it has so far. ended is false when the loop is
\* still running after MaxWalk segments.
RECURSIVE LegacyWalk(_, _, _)
LegacyWalk(nodes, cur, segs) ==
    IF Len(segs) >= MaxWalk
    THEN [ended |-> FALSE, segs |-> segs, is_trash |-> FALSE]
    ELSE IF cur.parent = TrashId
    THEN [ended |-> TRUE, segs |-> segs, is_trash |-> TRUE]
    ELSE LET next == Append(segs, sanitize_name(NameOrUuid(cur)))
         IN  IF cur.parent = RootId \/ ~HasNode(nodes, cur.parent)
             THEN [ended |-> TRUE, segs |-> next, is_trash |-> FALSE]
             ELSE LegacyWalk(nodes, NodeOf(nodes, cur.parent), next)

Reversed(s) == [i \in 1..Len(s) |-> s[Len(s) + 1 - i]]

\* _resolve_collection_path: (list(reversed(segs[1:])), is_trash)
legacy_resolve_collection_path(nodes, uuid) ==
    LET walk == LegacyWalk(nodes, NodeOf(nodes, uuid), <<>>)
    IN  [ended |-> walk.ended,
         path_segs |-> IF walk.segs = <<>> THEN <<>>
                       ELSE Reversed(Tail(walk.segs)),
         is_trash |-> walk.is_trash]

\* ---------------------------------------------------- its file system
LegacyDir == [dir |-> TRUE, owner |-> NoOwner, link |-> FALSE]
LegacyCopy(isDir, uuid) == [dir |-> isDir, owner |-> uuid, link |-> FALSE]
LegacyLink(isDir, uuid) == [dir |-> isDir, owner |-> uuid, link |-> TRUE]

legacy_ensure_directory(fs, p) ==
    [q \in DOMAIN fs \cup Prefixes(p) |-> IF Exists(fs, q) THEN fs[q] ELSE LegacyDir]

\* Path.stem and Path.suffix of a name: split at the last dot, if it is inside
LastDot(seg) ==
    LET dots == {k \in 2..(Len(seg) - 1) : seg[k] = "."}
    IN  IF dots = {} THEN 0 ELSE CHOOSE k \in dots : \A j \in dots : j <= k

Stem(seg) == IF LastDot(seg) = 0 THEN seg ELSE SubSeq(seg, 1, LastDot(seg) - 1)
Suffix(seg) == IF LastDot(seg) = 0 THEN <<>> ELSE SubSeq(seg, LastDot(seg), Len(seg))

with_suffix(p, ext) == Append(Parent(p), Stem(p[Len(p)]) \o ext)

Candidate(base, i) ==
    Append(Parent(base),
           Stem(base[Len(base)]) \o <<" ", "(", Digits[i], ")">> \o Suffix(base[Len(base)]))

choose_unique_path(fs, base_path) ==
    IF ~Exists(fs, base_path)
    THEN base_path
    ELSE Candidate(base_path,
                   CHOOSE i \in 1..MaxSuffix :
                       /\ ~Exists(fs, Candidate(base_path, i))
                       /\ \A j \in 1..(i - 1) : Exists(fs, Candidate(base_path, j)))

\* _link_or_copy: the file system it leaves, or that it raised
link_or_copy(fs, isDir, uuid, dst, copy) ==
    IF Exists(fs, dst)
    THEN [raised |-> FALSE, fs |-> fs]
    ELSE IF ~CanMakeDirs(fs, Parent(dst))
    THEN [raised |-> TRUE, fs |-> fs]
    ELSE [raised |-> FALSE,
          fs |-> Put(legacy_ensure_directory(fs, Parent(dst)), dst,
                     IF copy THEN LegacyCopy(isDir, uuid)
                             ELSE LegacyLink(isDir, uuid))]

\* -------------------------------------------------------- actions
NoArgs == [do_copy |-> FALSE, include_trash |-> FALSE, clear_dest |-> FALSE,
           order |-> "none"]

LegacyInit ==
    /\ legPc = "idle"
    /\ legArgs = NoArgs
    /\ legNodes = <<>>
    /\ legIdx = 0
    /\ legPaths = NoPaths
    /\ legacyFs = [p \in {} |-> LegacyDir]
    /\ legCalls = 0
    /\ legSeen = InitialMeta
    /\ legRepeat = FALSE
    /\ legPrevTree = [p \in {} |-> LegacyDir]
    /\ legPrevMap = NoPaths

legacyHistory == <<legCalls, legSeen, legRepeat, legPrevTree, legPrevMap>>

\* raw_dir is as the call before saw it, and that call returned
SameRawDir == legPc = "returned" /\ legSeen = meta

\* organize_files of src/organize.py up to its loop
legacy_organize_files ==
    /\ LegacyAtRest
    /\ legCalls < MaxLegacyCalls
    /\ \E copy \in BOOLEAN, trash \in BOOLEAN, clear \in BOOLEAN,
          order \in (IF SameRawDir THEN {legArgs.order} ELSE GlobOrders) :
          LET cleared == IF clear /\ Exists(legacyFs, DestRoot)
                         THEN rmtree(legacyFs, DestRoot)
                         ELSE legacyFs
              again == /\ SameRawDir
                       /\ ~legArgs.clear_dest /\ ~clear
                       /\ copy = legArgs.do_copy
                       /\ trash = legArgs.include_trash
          IN  /\ legArgs' = [do_copy |-> copy, include_trash |-> trash,
                             clear_dest |-> clear, order |-> order]
              /\ legacyFs' = legacy_ensure_directory(cleared, DestRoot)
              /\ legNodes' = build_nodes(meta, order)
              /\ legRepeat' = again
              /\ legPrevTree' = IF again THEN legacyFs ELSE [p \in {} |-> LegacyDir]
              /\ legPrevMap' = IF again THEN legPaths ELSE NoPaths
    /\ legPc' = "nodes"
    /\ legIdx' = 1
    /\ legPaths' = NoPaths
    /\ legCalls' = legCalls + 1
    /\ legSeen' = meta
    /\ UNCHANGED <<notLegacyVars>>

\* The destination the loop body builds for a node before making it unique
LegacyDestPath(node, resolved) ==
    IF resolved.is_trash
    THEN JoinAll(<<TrashSegment>>, resolved.path_segs)
    ELSE IF resolved.path_segs # <<>>
    THEN JoinAll(DestRoot, resolved.path_segs)
    ELSE Join(DestRoot, sanitize_name(NameOrUuid(node)))

Mapped(paths, uuid, p) ==
    [u \in DOMAIN paths \cup {uuid} |-> IF u = uuid THEN p ELSE paths[u]]

\* One iteration of the loop over nodes.items()
LegacyNodeStep ==
    /\ legPc = "nodes"
    /\ legIdx <= Len(legNodes)
    /\ LET node == legNodes[legIdx]
           uuid == node.uuid
           resolved == legacy_resolve_collection_path(legNodes, uuid)
           dest_path == choose_unique_path(legacyFs, LegacyDestPath(node, resolved))
           source == meta[uuid].source
           dst_file == choose_unique_path(legacyFs,
                           with_suffix(dest_path,
                                       IF source = "pdf" THEN PdfExt ELSE EpubExt))
           dst == IF source = "dir" THEN dest_path ELSE dst_file
           made == link_or_copy(legacyFs, source = "dir", uuid, dst,
                                legArgs.do_copy)
       IN  IF ~resolved.ended
           THEN /\ legPc' = "looping"
                /\ UNCHANGED <<legacyFs, legPaths, legIdx>>
           ELSE IF (resolved.is_trash /\ ~legArgs.include_trash)
                   \/ (node.type = "DocumentType" /\ source = "none")
                   \/ node.type = ""
           THEN /\ legIdx' = legIdx + 1
                /\ UNCHANGED <<legacyFs, legPaths, legPc>>
           ELSE IF node.type = "DocumentType"
           THEN IF made.raised
                THEN /\ legPc' = "raised"
                     /\ UNCHANGED <<legacyFs, legPaths, legIdx>>
                ELSE /\ legacyFs' = made.fs
                     /\ legPaths' = Mapped(legPaths, uuid, dst)
                     /\ legIdx' = legIdx + 1
                     /\ UNCHANGED legPc
           ELSE IF CanMakeDirs(legacyFs, dest_path)
                THEN /\ legacyFs' = legacy_ensure_directory(legacyFs, dest_path)
                     /\ legPaths' = Mapped(legPaths, uuid, dest_path)
                     /\ legIdx' = legIdx + 1
                     /\ UNCHANGED legPc
                ELSE /\ legPc' = "raised"
                     /\ UNCHANGED <<legacyFs, legPaths, legIdx>>
    /\ UNCHANGED <<legArgs, legNodes, legacyHistory, notLegacyVars>>

\* organize_files of src/organize.py returns organized_paths
LegacyReturn ==
    /\ legPc = "nodes"
    /\ legIdx > Len(legNodes)
    /\ legPc' = "returned"
    /\ UNCHANGED <<legArgs, legNodes, legIdx, legPaths, legacyFs, legacyHistory,
                   notLegacyVars>>

LegacyNext ==
    \/ EditRecord
    \/ legacy_organize_files
    \/ LegacyNodeStep
    \/ LegacyReturn

\* =====================================================================
\* The paths organize_files computes, for names of every kind
\* =====================================================================
\* The directory of a collection is dest_root joined with the sanitized names
\* of its chain, outermost first (_build_collection_paths), and a document's
\* destination is its directory joined with its sanitized title
\* (_create_destination_path).  Both are functions of the names alone.
MaxChain == 2          \* longest chain of collections above a document

DotDot == <<".", ".">>
Dot == <<".">>
Untitled == <<>>

SegmentNames == {DotDot, <<" ", ".", ".">>, Dot, Untitled, Notes, Draft}

Chains == UNION {[1..n -> SegmentNames] : n \in 0..MaxChain}

PlacementInputs ==
    [chain : Chains, title : SegmentNames, type : {"notebook", "pdf"}]

NoPlacement == [done |-> FALSE, dest_dir |-> DestRoot, dest_path |-> DestRoot]

\* The path resolve_collection_path gives for the innermost collection of the
\* chain, all of them known and none trashed
ChainPath(chain) == [i \in 1..Len(chain) |-> sanitize_name(chain[i])]

NoNode ==
    /\ plcInput = [chain |-> <<>>, title |-> Untitled, type |-> "notebook"]
    /\ plcOutput = NoPlacement

\* The document's directory is computed and then its destination path.
PlaceDocument ==
    /\ ~plcOutput.done
    /\ LET full_path == JoinAll(DestRoot, ChainPath(plcInput.chain))
       IN  plcOutput' =
              [done |-> TRUE,
               dest_dir |-> full_path,
               dest_path |-> create_destination_path(full_path, plcInput.title,
                                                     plcInput.type)]
    /\ UNCHANGED <<plcInput, notPlcVars>>

\* =====================================================================
\* Concurrent calls of pull_from_tablet on one destination
\* =====================================================================
\* Each call has its own connection, its own SyncStats and its own place in
\* the walk; the calls share the tablet and the local destination.  The
\* connection succeeds, no listing and no transfer fails, and the tablet is
\* not written during the calls, so a call's walk is the sequence of the file
\* entries of the tree, the directories' entries in their place.
NCalls == 2

Callers == 1..NCalls

WalkOrder == <<1>> \o [i \in 1..(NFiles - 2) |-> i + 2] \o <<2>>

FileEntries == SelectSeq(WalkOrder, LAMBDA f : remote[f].present)

ConInit ==
    /\ conPc = [c \in Callers |-> "idle"]
    /\ conForce = [c \in Callers |-> FALSE]
    /\ conIdx = [c \in Callers |-> 0]
    /\ conDecision = [c \in Callers |-> NoDecision]
    /\ conStats = [c \in Callers |-> NewStats]
    /\ conReasons = [c \in Callers |-> [f \in Files |-> "none"]]

\* A call that waits at a file entry while another call is between its
\* decision and the end of its transfer
AtEntryAlone(c) ==
    /\ conPc[c] = "walk"
    /\ conIdx[c] \in 1..Len(FileEntries)
    /\ \A d \in Callers \ {c} : conPc[d] # "decided"

\* The call's loop is at a file entry: nothing else is asked before
\* _should_download_file and nothing is held during the transfer.
AtEntry(c) ==
    /\ conPc[c] = "walk"
    /\ conIdx[c] \in 1..Len(FileEntries)

\* pull_from_tablet(..., force) is called by a caller that has made no call yet.
ConCall(c) ==
    /\ conPc[c] = "idle"
    /\ \E forced \in BOOLEAN : conForce' = [conForce EXCEPT ![c] = forced]
    /\ conPc' = [conPc EXCEPT ![c] = "walk"]
    /\ conIdx' = [conIdx EXCEPT ![c] = 1]
    /\ conDecision' = [conDecision EXCEPT ![c] = NoDecision]
    /\ conStats' = [conStats EXCEPT ![c] = NewStats]
    /\ conReasons' = [conReasons EXCEPT ![c] = [f \in Files |-> "none"]]
    /\ UNCHANGED <<local, notConVars>>

\* _should_download_file for the call's entry, on the destination as it is now
ConDecide(c) ==
    /\ AtEntry(c)
    /\ LET f == FileEntries[conIdx[c]]
           d == ShouldDownloadFile(conForce[c], local[f], remote[f], TRUE)
       IN  /\ conDecision' = [conDecision EXCEPT ![c] =
                                 [file |-> f, should |-> d.should,
                                  reason |-> d.reason, statOk |-> TRUE]]
           /\ conReasons' = [conReasons EXCEPT ![c][f] = d.reason]
    /\ conPc' = [conPc EXCEPT ![c] = "decided"]
    /\ UNCHANGED <<local, conForce, conIdx, conStats, notConVars>>

\* sftp.get, os.utime and the counters of the call
ConDownload(c) ==
    /\ conPc[c] = "decided" /\ conDecision[c].should
    /\ LET f == conDecision[c].file IN
       /\ \E now \in NowTimes :
             local' = [local EXCEPT ![f] = Downloaded(remote[f], now)]
       /\ conStats' = [conStats EXCEPT ![c].downloaded = @ + 1,
                                       ![c].total_size = @ + remote[f].size]
    /\ conIdx' = [conIdx EXCEPT ![c] = @ + 1]
    /\ conPc' = [conPc EXCEPT ![c] = "walk"]
    /\ UNCHANGED <<conForce, conDecision, conReasons, notConVars>>

ConSkip(c) ==
    /\ conPc[c] = "decided" /\ ~conDecision[c].should
    /\ conStats' = [conStats EXCEPT ![c].skipped = @ + 1]
    /\ conIdx' = [conIdx EXCEPT ![c] = @ + 1]
    /\ conPc' = [conPc EXCEPT ![c] = "walk"]
    /\ UNCHANGED <<local, conForce, conDecision, conReasons, notConVars>>

\* The walk is over and the call returns its stats.
ConFinish(c) ==
    /\ conPc[c] = "walk"
    /\ conIdx[c] > Len(FileEntries)
    /\ conPc' = [conPc EXCEPT ![c] = "returned"]
    /\ UNCHANGED <<local, conForce, conIdx, conDecision, conStats, conReasons,
                   notConVars>>

ConcurrentNext ==
    \E c \in Callers :
        \/ ConCall(c)
        \/ ConDecide(c)
        \/ ConDownload(c)
        \/ ConSkip(c)
        \/ ConFinish(c)

\* =====================================================================
\* The pipelines: cmd_sync, EnhancedCLI.run_complete_workflow and sync_all
\* =====================================================================
\* Each of them calls pull_from_tablet, build_index and organize_files, one
\* after the other, in its own thread of control.  A stage is here a call
\* that returns or raises; what it does is modelled above.
Stages == <<"pull", "index", "organize">>

Drivers == {"cmd_sync", "workflow", "sync_all"}

\* What a stage can raise: the pull its own errors, every stage an OSError,
\* and the user's interrupt.
StageErrors(k) ==
    IF k = 1 THEN {"AuthenticationError", "ConnectionError", "SyncError",
                   "OSError", "KeyboardInterrupt"}
    ELSE {"OSError", "KeyboardInterrupt"}

\* handle_error printing the error and coming back to its caller
handle_error_returning(error) == [exits |-> FALSE, code |-> 0]

\* handle_error: prints the error and ends the process with its exit code
handle_error(error) ==
    [exits |-> TRUE,
     code |-> IF error \in {"ConnectionError", "AuthenticationError"} THEN 2
              ELSE IF error = "ConfigError" THEN 3
              ELSE 1]

NoPipeline ==
    [driver |-> "none", dry_run |-> FALSE, force_sync |-> FALSE, copy |-> FALSE,
     include_trash |-> FALSE]

PipeInit ==
    /\ pipeArgs = NoPipeline
    /\ pipePc = "idle"
    /\ pipeStage = 0
    /\ pipeLog = <<>>
    /\ pipeResult = "none"

\* The arguments each pipeline takes: sync_all has none of the flags, and the
\* workflow passes fixed values to organize_files.
PipelineArgs ==
    {a \in [driver : Drivers, dry_run : BOOLEAN, force_sync : BOOLEAN,
            copy : BOOLEAN, include_trash : BOOLEAN] :
        /\ a.driver = "sync_all" => ~a.dry_run /\ ~a.force_sync
        /\ a.driver # "cmd_sync" => ~a.copy /\ ~a.include_trash}

PipelineOver == pipePc \in {"idle", "returned", "exited", "raised"}

\* One of the pipelines is invoked.
PipelineCall ==
    /\ PipelineOver
    /\ \E a \in PipelineArgs :
          /\ pipeArgs' = a
          /\ \E env_exists \in BOOLEAN :
                pipePc' = IF a.driver = "cmd_sync" THEN "validate"
                          ELSE IF a.driver = "workflow" /\ ~env_exists THEN "setup"
                          ELSE "step"
    /\ pipeStage' = 1
    /\ pipeLog' = <<>>
    /\ pipeResult' = "none"
    /\ UNCHANGED notPipeVars

\* The process ends in handle_error, or handle_error comes back and the
\* caller returns what it returns then.
AfterHandleError(error, returned) ==
    IF handle_error(error).exits
    THEN /\ pipePc' = "exited"
         /\ pipeResult' = handle_error(error).code
    ELSE /\ pipePc' = "returned"
         /\ pipeResult' = returned

\* cmd_sync: validate_config, then the dry run's return
ValidateConfig ==
    /\ pipePc = "validate"
    /\ \/ /\ pipePc' = IF pipeArgs.dry_run THEN "returned" ELSE "step"
          /\ UNCHANGED pipeResult
       \/ AfterHandleError("ConfigError", "none")
    /\ UNCHANGED <<pipeArgs, pipeStage, pipeLog, notPipeVars>>

\* run_complete_workflow: _run_setup when there is no .env
RunSetup ==
    /\ pipePc = "setup"
    /\ \/ /\ pipePc' = "step"
          /\ UNCHANGED pipeResult
       \/ AfterHandleError("OSError", 1)
    /\ UNCHANGED <<pipeArgs, pipeStage, pipeLog, notPipeVars>>

\* After a step that is over without a failure: the next step, or the end of
\* the pipeline.
NextStep ==
    IF pipeStage < Len(Stages)
    THEN /\ pipeStage' = pipeStage + 1
         /\ pipePc' = "step"
         /\ UNCHANGED pipeResult
    ELSE /\ pipePc' = "returned"
         /\ pipeResult' = IF pipeArgs.driver = "workflow" THEN 0 ELSE "none"
         /\ UNCHANGED pipeStage

\* A step of the pipeline begins: the stage is called, or, in the workflow's
\* dry run, the step is over without a call.
StartStage ==
    /\ pipePc = "step"
    /\ IF pipeArgs.dry_run
       THEN NextStep /\ UNCHANGED pipeLog
       ELSE /\ pipeLog' = Append(pipeLog, <<Stages[pipeStage], "started">>)
            /\ pipePc' = "stage"
            /\ UNCHANGED <<pipeStage, pipeResult>>
    /\ UNCHANGED <<pipeArgs, notPipeVars>>

\* The stage returns.
StageReturns ==
    /\ pipePc = "stage"
    /\ pipeLog' = Append(pipeLog, <<Stages[pipeStage], "returned">>)
    /\ NextStep
    /\ UNCHANGED <<pipeArgs, notPipeVars>>

\* The stage raises: sync_all lets the error through; cmd_pull, cmd_index and
\* cmd_organize, and _run_pull, _run_index and _run_organize, catch an
\* Exception and call handle_error; an interrupt is caught by
\* run_complete_workflow only, which returns 130.
StageRaises ==
    /\ pipePc = "stage"
    /\ \E error \in StageErrors(pipeStage) :
          /\ pipeLog' = Append(pipeLog, <<Stages[pipeStage], "raised">>)
          /\ IF pipeArgs.driver = "sync_all"
                \/ (error = "KeyboardInterrupt" /\ pipeArgs.driver = "cmd_sync")
             THEN /\ pipePc' = "raised"
                  /\ pipeResult' = error
                  /\ UNCHANGED pipeStage
             ELSE IF error = "KeyboardInterrupt"
             THEN /\ pipePc' = "returned"
                  /\ pipeResult' = 130
                  /\ UNCHANGED pipeStage
             ELSE IF pipeArgs.driver = "workflow"
             THEN AfterHandleError(error, 1) /\ UNCHANGED pipeStage
             ELSE IF handle_error(error).exits
             THEN AfterHandleError(error, "none") /\ UNCHANGED pipeStage
             ELSE NextStep
    /\ UNCHANGED <<pipeArgs, notPipeVars>>

PipelineNext ==
    \/ PipelineCall
    \/ ValidateConfig
    \/ RunSetup
    \/ StartStage
    \/ StageReturns
    \/ StageRaises

\* =====================================================================
\* sanitize_name on its own
\* =====================================================================
MaxShort == 3          \* longest name made of the characters of NameChars

NameChars == {"a", " ", "/", "\\", ":"}

ShortNames == UNION {[1..n -> NameChars] : n \in 0..MaxShort}

\* n times the character "a"
Filler(n) == [i \in 1..n |-> "a"]

\* Short names, and names around NameLimit characters that end in a short one
NameInputs ==
    {Filler(n) \o t : n \in {0} \cup ((NameLimit - 2)..(NameLimit + 1)),
                      t \in ShortNames}

NoOutput == [returned |-> FALSE, text |-> <<>>]

NoName ==
    /\ sanInput = <<>>
    /\ sanOutput = NoOutput

\* sanitize_name(sanInput) is called and returns
SanitizeName ==
    /\ ~sanOutput.returned
    /\ sanOutput' = [returned |-> TRUE, text |-> sanitize_name(sanInput)]
    /\ UNCHANGED <<sanInput, notSanVars>>

SanitizeInit ==
    /\ PullInit /\ OrgInit /\ LegacyInit /\ PipeInit /\ ConInit /\ NoNode
    /\ sanInput \in NameInputs
    /\ sanOutput = NoOutput

\* ------------------------------------------------------ specifications
Init ==
    PullInit /\ OrgInit /\ LegacyInit /\ NoName /\ PipeInit /\ ConInit /\ NoNode

\* The pull, with raw_dir's records and dest_root left alone
Spec == Init /\ [][PullNext]_vars

\* The organiser, with no pull running
SpecOrganize == Init /\ [][OrganizeNext]_vars

\* The older organiser, with no pull and no other organiser running
SpecLegacy == Init /\ [][LegacyNext]_vars

\* sanitize_name, applied once to each name of NameInputs
SpecSanitize == SanitizeInit /\ [][SanitizeName]_vars

\* The pipelines, their stages taken as calls
SpecPipeline == Init /\ [][PipelineNext]_vars

\* The paths computed for one document, for each input of PlacementInputs
PlacementInit ==
    /\ PullInit /\ OrgInit /\ LegacyInit /\ NoName /\ PipeInit /\ ConInit
    /\ plcInput \in PlacementInputs
    /\ plcOutput = NoPlacement

SpecPlacement == PlacementInit /\ [][PlaceDocument]_vars

\* Two calls of pull_from_tablet at once, on one tablet and one destination
SpecConcurrent == Init /\ [][ConcurrentNext]_vars

\* ================================================================ claims
With(o) == {f \in Files : outcome[f] = o}
Handled == {f \in Files : outcome[f] # "none"}
MtimeGap(f) == Abs(remote[f].mtime - local[f].mtime)

\* C1 (as stated): the decision is true if and only if force is set, or the
\* local copy is absent, or the sizes differ, or the modification times
\* differ by more than 1 second.
C1_DecisionIffFourCauses ==
    pc = "decided" =>
        (decision.should <=>
            \/ force
            \/ ~local[decision.file].present
            \/ remote[decision.file].size # local[decision.file].size
            \/ MtimeGap(decision.file) > 1)

\* C1 (amended): the decision is true if and only if force is set, or the
\* local copy is absent, or a stat call of the check raises, or the sizes
\* differ, or the modification times differ by more than 1 second; a gap of
\* exactly 1 second with equal sizes is skipped.
C1_DecisionIffFiveCauses ==
    pc = "decided" =>
        (decision.should <=>
            \/ force
            \/ ~local[decision.file].present
            \/ ~decision.statOk
            \/ remote[decision.file].size # local[decision.file].size
            \/ MtimeGap(decision.file) > 1)

\* C1 witness: an unforced check of a present local copy of equal size whose
\* time is exactly 1 second off the remote's answers "unchanged".
C1_SkippedAtOneSecond ==
    /\ pc = "decided" /\ ~force /\ decision.statOk
    /\ local[decision.file].present
    /\ remote[decision.file].size = local[decision.file].size
    /\ MtimeGap(decision.file) = 1
    /\ ~decision.should

\* C2: a call (force unset) that follows a call that returned, with no
\* remote change in between, returns downloaded = 0; stated for the runs in
\* which no listing, stat or transfer ever failed.
C2_SecondCallDownloadsNothing ==
    (pc = "returned" /\ ~force /\ prevClean /\ prevErrors = 0 /\ faults = 0)
        => stats.downloaded = 0

\* C3: a file whose transfer raises adds exactly 1 to errors and does not end
\* the walk: when the call returns, every file of every directory that could
\* be listed has been handled, and the call never ends by raising once a
\* file has failed.
C3_FileFailureIsCountedAndPassed ==
    /\ stats.errors = Cardinality(With("error")) + Cardinality(failedDirs)
    /\ (pc = "returned" /\ failedDirs = {}) => Handled = RemoteFiles
    /\ pc = "raised" => With("error") = {}

\* C3 witness: the first entry of the root failed, and the call returned with
\* the rest of the root and the whole of "sub" handled without error.
C3_ReturnedAfterFailure ==
    /\ pc = "returned"
    /\ outcome[1] = "error"
    /\ stats.errors = 1
    /\ Cardinality(RemoteFiles) >= 3
    /\ \A f \in RemoteFiles \ {1} : outcome[f] \in {"downloaded", "skipped"}

\* C4: at most 3 attempts per call; 1 s is slept after the first failed
\* attempt and 2 s after the second, and nothing after the third; an attempt
\* that succeeds is the last one; and when the third attempt fails the call
\* raises the error of that attempt.
C4_StateOfRetry ==
    /\ attempt \in 0..3
    /\ connects <= 3
    /\ waits \in {<<>>, <<1>>, <<1, 2>>}
    /\ attempt >= 1 => Len(waits) = attempt - 1
    /\ pc \in {"connect"} => connects = attempt - 1
    /\ pc \in {"open_sftp", "is_dir", "walk", "decided", "returned"} => connects = attempt
    /\ (pc = "raised" /\ attempt >= 1) => (attempt = 3 /\ connects = 3)

C4_RaiseStep ==
    (pc' = "raised" /\ pc \in {"connect", "open_sftp", "is_dir"}) =>
        /\ attempt = 3
        /\ waits' = waits
        /\ lastError' \in (CASE pc = "connect" -> {"auth", "conn"}
                             [] pc = "open_sftp" -> {"conn"}
                             [] OTHER -> {"notfound", "cannotcheck"})

C4_BoundedBackoff == []C4_StateOfRetry /\ [][C4_RaiseStep]_vars

\* C4 witness: three attempts failed, two waits of 1 s and 2 s were made, and
\* the call raised.
C4_Exhausted ==
    pc = "raised" /\ attempt = 3 /\ waits = <<1, 2>> /\ lastError = "conn"

\* C5: an authentication failure at connect is not retried: after it the
\* call has raised, with no wait and no further attempt.
C5_AuthFailureRaisesAtOnce == lastError = "auth" => pc = "raised"

\* C6: when the remote root is missing or no directory, the call fails at
\* once, with no retry, and nothing was listed or transferred.
C6_MissingRootRaisesAtOnce ==
    lastError = "notfound" => (pc = "raised" /\ listings = 0 /\ transfers = 0)

\* C7: a connection-level failure during the walk fails the attempt, so a
\* call that returns normally met none in its walk.
C7_WalkConnectionFailureRetried == pc = "returned" => ~netFailure

\* C8: every file handled adds 1 to exactly one counter: skipped when the
\* decision was false, downloaded when the transfer succeeded, errors when it
\* raised; and a failure-free run over 4 remote files of which exactly one
\* needed a transfer returns downloaded = 1, skipped = 3, errors = 0.
C8_OneCounterPerFile ==
    /\ stats.downloaded = Cardinality(With("downloaded"))
    /\ stats.skipped = Cardinality(With("skipped"))
    /\ stats.errors = Cardinality(With("error")) + Cardinality(failedDirs)
    /\ \A f \in Files :
         /\ outcome[f] = "skipped" => reasons[f] = "unchanged"
         /\ outcome[f] \in {"downloaded", "error"} =>
                reasons[f] \in {"forced", "new file", "size changed", "modified",
                                "check failed"}
    /\ (/\ pc = "returned"
        /\ Cardinality(RemoteFiles) = 4
        /\ Cardinality(needAtCall) = 1
        /\ stats.errors = 0
        /\ \A f \in Files : reasons[f] # "check failed")
       => (stats.downloaded = 1 /\ stats.skipped = 3)

\* C8 witness: 4 remote files, 3 of them unchanged and 1 new, no failure:
\* the call returned downloaded = 1, skipped = 3, errors = 0.
C8_IncrementalScenario ==
    /\ pc = "returned"
    /\ Cardinality(RemoteFiles) = 4
    /\ Cardinality({f \in Files : reasons[f] = "unchanged"}) = 3
    /\ Cardinality({f \in Files : reasons[f] = "new file"}) = 1
    /\ stats.downloaded = 1 /\ stats.skipped = 3 /\ stats.errors = 0

\* ---------------------------------------------------------------- C9
\* C9, as the specification states it: organize_files never gives two
\* distinct document ids the same final path; when it has returned, any two
\* ids of its map have different paths.
C9_DistinctFinalPaths ==
    orgPc = "returned" =>
        \A u, v \in DOMAIN organized_paths :
            u # v => organized_paths[u] # organized_paths[v]

\* --------------------------------------------------------------- C10
\* A loaded document is trashed when its parent is "trash"; a record built by
\* _build_simple_catalog keeps that as is_trashed only.
Trashed(doc) == GetParent(doc) = TrashId \/ doc.is_trashed

MadeFor(uuid) == {w \in written : w[2] = uuid}

\* C10: in a call with include_trash false, a document whose parent is the
\* trash sentinel is never in the map and nothing under dest_root is made for
\* it, whatever its title, type and source artifact.
C10_TrashedDocumentLeftOut ==
    ~include_trash =>
        \A i \in 1..Len(documents) :
            Trashed(documents[i]) =>
                /\ documents[i].uuid \notin DOMAIN organized_paths
                /\ MadeFor(documents[i].uuid) = {}

\* A call without trash has returned; it met a trashed document whose source
\* artifact was there to copy and it placed another document.
C10_TrashedSkippedOtherPlaced ==
    /\ orgPc = "returned"
    /\ ~include_trash
    /\ organized_paths # NoPaths
    /\ \E i \in 1..Len(documents) :
          /\ Trashed(documents[i])
          /\ find_source_file(meta, documents[i].uuid, documents[i].type) # "none"

\* --------------------------------------------------------------- C11
\* The parent chain of a loaded record reaches "trash", directly or through
\* loaded collections.
RECURSIVE ReachesTrash(_, _, _)
ReachesTrash(cols, current, visited) ==
    IF current = TrashId THEN TRUE
    ELSE IF current = RootId \/ ~InMap(cols, current) \/ current \in visited
    THEN FALSE
    ELSE ReachesTrash(cols, GetParent(collection_map(cols, current)),
                      visited \cup {current})

ResolvesTrashed(rec) ==
    ("is_trashed" \in DOMAIN rec /\ rec.is_trashed)
    \/ ReachesTrash(collections, GetParent(rec), {})

\* C11, as the specification states it: in a call with include_trash false no
\* node that resolves as trashed is in the map or has a directory, and nothing
\* under dest_root is made for it; a document inside a trashed collection is
\* not materialized.
C11_TrashedNodesLeftOut ==
    ~include_trash =>
        /\ \A i \in 1..Len(documents) :
              ResolvesTrashed(documents[i]) =>
                  /\ documents[i].uuid \notin DOMAIN organized_paths
                  /\ MadeFor(documents[i].uuid) = {}
        /\ \A i \in 1..Len(collections) :
              ResolvesTrashed(collections[i]) =>
                  /\ collections[i].uuid \notin DOMAIN collection_paths
                  /\ MadeFor(collections[i].uuid) = {}

\* --------------------------------------------------------------- C12
UnderTrash(p) == IsPrefix(<<TrashSegment>>, p)

\* C12, as the specification states it: a call with include_trash true places
\* every node that resolves as trashed under dest_root/trash, never in the
\* normal tree: whatever is made for it lies under dest_root/trash, and when
\* the call has returned a trashed collection has its directory there.
C12_TrashedNodesUnderTrash ==
    include_trash =>
        /\ \A i \in 1..Len(documents) :
              ResolvesTrashed(documents[i]) =>
                  \A w \in MadeFor(documents[i].uuid) : UnderTrash(w[1])
        /\ \A i \in 1..Len(collections) :
              ResolvesTrashed(collections[i]) =>
                  /\ \A w \in MadeFor(collections[i].uuid) : UnderTrash(w[1])
                  /\ orgPc = "returned" =>
                        /\ collections[i].uuid \in DOMAIN collection_paths
                        /\ UnderTrash(collection_paths[collections[i].uuid])

\* --------------------------------------------------------------- C13
MadePaths == {w[1] : w \in written}

\* C13: when organize_files with clear_dest true has returned and is called
\* again with the same arguments, raw_dir and catalog.json unchanged, the
\* second call returns with the same tree under dest_root and the same map as
\* the first, and all it leaves under dest_root was made by the second call
\* itself: nothing accumulates from one rebuild to the next.
C13_RebuildGivesSameTree ==
    (orgPc = "returned" /\ rebuild) =>
        /\ destFs = prevTree
        /\ organized_paths = prevMap
        /\ DOMAIN destFs \ {DestRoot} \subseteq MadePaths

\* A second rebuild has returned, with documents in its map and collection
\* directories in its tree.
C13_RebuiltTwice ==
    /\ orgPc = "returned"
    /\ rebuild
    /\ organized_paths # NoPaths
    /\ collection_paths # NoPaths
    /\ prevMap # NoPaths

\* --------------------------------------------------------------- C14
Resolved(i) == resolve_collection_path(collections, collections[i].uuid)

\* The collection is one _build_collection_paths makes a directory for
Placed(i) ==
    /\ ~(collections[i].parent = TrashId /\ ~include_trash)
    /\ Resolved(i).found
    /\ Resolved(i).path # <<>>

\* C14: for every loaded collection set, parent cycles included,
\* resolve_collection_path ends with a defined path that has at most one
\* segment for each collection, and _build_collection_paths gets through all
\* collections: once its loop is over every collection it had to place has its
\* resolved path, and the directory is there before the first document is
\* looked at.
C14_CycleSafeResolution ==
    /\ \A i \in 1..Len(collections) :
          /\ Resolved(i) \in [found : BOOLEAN, path : Seq(Seq(STRING))]
          /\ Len(Resolved(i).path) <= Len(collections)
    /\ orgPc \in {"documents", "returned"} =>
          \A i \in 1..Len(collections) :
              Placed(i) =>
                  /\ collections[i].uuid \in DOMAIN collection_paths
                  /\ collection_paths[collections[i].uuid] =
                         JoinAll(DestRoot, Resolved(i).path)
                  /\ (orgPc = "documents" /\ idx = 1) =>
                         IsDir(destFs, collection_paths[collections[i].uuid])

\* A call has returned whose collections are each other's parent, both placed.
C14_CycleResolved ==
    /\ orgPc = "returned"
    /\ \E i, j \in 1..Len(collections) :
          /\ i # j
          /\ collections[i].parent = collections[j].uuid
          /\ collections[j].parent = collections[i].uuid
          /\ Placed(i) /\ Placed(j)
          /\ Len(Resolved(i).path) = 2

\* --------------------------------------------------------------- C15
\* C15, as the specification states it: _resolve_collection_path of
\* src/organize.py ends for every node of every node set, parent cycles
\* included, and returns no more segments than there are nodes.
C15_LegacyResolutionEnds ==
    \A i \in 1..Len(legNodes) :
        LET resolved == legacy_resolve_collection_path(legNodes, legNodes[i].uuid)
        IN  /\ resolved.ended
            /\ Len(resolved.path_segs) <= Len(legNodes)

\* --------------------------------------------------------------- C19
\* C19, as the specification states it: when organize_files of
\* src/organize.py has returned and is called again with the same arguments,
\* clear_dest false, raw_dir unchanged, the second call makes nothing new
\* under dest_root and returns the map the first call returned.
C19_LegacyRepeatIsNoOp ==
    (legPc = "returned" /\ legRepeat) =>
        /\ legacyFs = legPrevTree
        /\ legPaths = legPrevMap

\* --------------------------------------------------------------- C16
\* The chain of parents in raw_dir's records, from the record current up:
\* whether it ends at the root through collections that are there, without
\* trash and without a cycle, and the sanitized names on the way, root first.
RECURSIVE RecordChain(_, _, _, _)
RecordChain(m, current, visited, names) ==
    IF current = RootId THEN [toRoot |-> TRUE, names |-> names]
    ELSE IF current \notin Cols \/ current \in visited
    THEN [toRoot |-> FALSE, names |-> names]
    ELSE IF ~m[current].present \/ ~m[current].parsed
    THEN [toRoot |-> FALSE, names |-> names]
    ELSE RecordChain(m, m[current].parent, visited \cup {current},
                     <<sanitize_name(m[current].name)>> \o names)

\* C16, as the specification states it: a document whose parent chain has no
\* cycle and no trash and ends at the root is placed under dest_root at the
\* sanitized names of its ancestor collections, root-most first, followed by
\* its own sanitized name (with the extension of its type, if it is no
\* notebook).
C16_PlacedAtResolvedPath ==
    orgPc = "returned" =>
        \A u \in DOMAIN organized_paths :
            LET chain == RecordChain(meta, meta[u].parent, {}, <<>>)
            IN  (meta[u].present /\ meta[u].parsed /\ chain.toRoot) =>
                    organized_paths[u] =
                        create_destination_path(JoinAll(DestRoot, chain.names),
                                                meta[u].name, meta[u].fileType)

\* --------------------------------------------------------------- C17
Catalogued(cat) ==
    {cat.documents[i].uuid : i \in 1..Len(cat.documents)}
    \cup {cat.collections[i].uuid : i \in 1..Len(cat.collections)}

\* C17, as the specification states it: every build_index leaves a catalog
\* that has an entry for each record that parses and none for a record that
\* does not.
C17_MalformedRecordSkipped ==
    [][build_index =>
          Catalogued(catalog') = {u \in Nodes : meta[u].present /\ meta[u].parsed}]_vars

\* --------------------------------------------------------------- C18
\* C18, as the specification states it: in a call with do_copy false every
\* destination made for a document is a symbolic link to its source, and
\* nothing is copied.
C18_LinksUnlessCopy ==
    ~do_copy =>
        \A u \in DOMAIN organized_paths :
            Exists(destFs, organized_paths[u]) =>
                destFs[organized_paths[u]].link

\* --------------------------------------------------------------- C20
Unsafe == {"/", "\\", ":"}

\* C20: for every name, what sanitize_name returns holds none of the
\* characters "/", "\" and ":" and is at most NameLimit (200) characters long.
C20_SegmentIsSafeAndShort ==
    sanOutput.returned =>
        /\ \A i \in 1..Len(sanOutput.text) : sanOutput.text[i] \notin Unsafe
        /\ Len(sanOutput.text) <= NameLimit

\* sanitize_name has returned for a name longer than NameLimit that holds all
\* three characters, and it has cut it.
C20_LongUnsafeNameCut ==
    /\ sanOutput.returned
    /\ Len(sanInput) > NameLimit
    /\ Unsafe \subseteq {sanInput[i] : i \in 1..Len(sanInput)}
    /\ Len(sanOutput.text) = NameLimit

\* --------------------------------------------------------------- C21
\* C21, as the specification states it: a file transferred in this call,
\* with the tablet unchanged since, has the remote entry's modification time
\* as its local modification time, and an unforced check of it now answers
\* "unchanged".
C21_TransferKeepsRemoteMtime ==
    \A f \in Files :
        (outcome[f] = "downloaded" /\ ~changedSince) =>
            /\ local[f].mtime = remote[f].mtime
            /\ ShouldDownloadFile(FALSE, local[f], remote[f], TRUE).reason = "unchanged"

\* --------------------------------------------------------------- C22
\* raw_dir holds no artifact that _find_source_file would take for the document
SourceMissing(doc) ==
    IF doc.type = "notebook"
    THEN meta[doc.uuid].source # "dir"
    ELSE meta[doc.uuid].source \notin {"pdf", "epub"}

\* The document is one the loop gets a destination directory for and tries to
\* copy
Attempted(doc) ==
    /\ ~(doc.is_trashed /\ ~include_trash)
    /\ ~SourceMissing(doc)
    /\ determine_destination_dir(GetParent(doc), collection_paths, destFs,
                                 include_trash).kind = "dir"

\* The copy of the document, from the place _determine_destination_dir gives
CopyAttempt(doc) ==
    LET dest_dir == determine_destination_dir(GetParent(doc), collection_paths,
                                              destFs, include_trash)
        dest_path == create_destination_path(dest_dir.path, doc.title, doc.type)
    IN  copy_document(dest_dir.fs, IF doc.type = "notebook" THEN "dir" ELSE "file",
                      dest_path, doc.uuid)

\* C22: a document whose source artifact is not found, or whose copy fails, is
\* left out of the map, the call does not raise and goes on to the next
\* document with the map as it was; a document whose copy succeeds is in the
\* map at a path that holds its copy; and a call that has returned has been
\* through all its documents.
C22_DocumentLoopStep ==
    DocumentStep =>
        LET doc == documents[idx]
            failed == SourceMissing(doc) \/ (Attempted(doc) /\ ~CopyAttempt(doc).ok)
        IN  /\ failed =>
                  /\ doc.uuid \notin DOMAIN organized_paths'
                  /\ orgPc' = "documents"
                  /\ idx' = idx + 1
            /\ SourceMissing(doc) => destFs' = destFs
            /\ (Attempted(doc) /\ CopyAttempt(doc).ok) =>
                  /\ doc.uuid \in DOMAIN organized_paths'
                  /\ Exists(destFs', organized_paths'[doc.uuid])
                  /\ destFs'[organized_paths'[doc.uuid]].owner = doc.uuid
            /\ \A u \in DOMAIN organized_paths :
                  /\ u \in DOMAIN organized_paths'
                  /\ organized_paths'[u] = organized_paths[u]

C22_FailuresIsolated ==
    /\ [](orgPc = "returned" => idx > Len(documents))
    /\ [][C22_DocumentLoopStep]_vars

\* A call has returned that left out a document whose artifact was there but
\* could not be copied, and placed the document after it.
C22_ReturnedPastFailure ==
    /\ orgPc = "returned"
    /\ \E i, j \in 1..Len(documents) :
          /\ i < j
          /\ ~(documents[i].is_trashed /\ ~include_trash)
          /\ ~SourceMissing(documents[i])
          /\ documents[i].uuid \notin DOMAIN organized_paths
          /\ documents[j].uuid \in DOMAIN organized_paths

\* --------------------------------------------------------------- C23
\* organize_files is past the clearing of dest_root
Running == orgPc \in {"collections", "documents", "returned"}

\* C23: in a call with clear_dest true, from the clearing on, everything under
\* dest_root was made by this call, and the copy of a document that is not
\* among the call's documents is nowhere under dest_root.
C23_OnlyThisRunsEntries ==
    (clear_dest /\ Running) =>
        /\ Exists(destFs, DestRoot)
        /\ DOMAIN destFs \ {DestRoot} \subseteq MadePaths
        /\ \A p \in DOMAIN destFs :
              destFs[p].owner # NoOwner =>
                  \E i \in 1..Len(documents) : documents[i].uuid = destFs[p].owner

\* A clearing call has returned after the first document's record went from
\* raw_dir: the copy dest_root held for it is gone, and the call placed the
\* other document.
C23_StaleCopyGone ==
    /\ orgPc = "returned"
    /\ clear_dest
    /\ ~meta[DocId(1)].present
    /\ \A p \in DOMAIN destFs : destFs[p].owner # DocId(1)
    /\ DocId(2) \in DOMAIN organized_paths

\* --------------------------------------------------------------- C24
\* C24: the stage calls of a pipeline are made in the order pull, index,
\* organize, each one after the one before it has returned, and after a stage
\* that raised no stage is called.
C24_StagesInOrder ==
    \A k \in 1..Len(pipeLog) :
        /\ pipeLog[k][1] = Stages[(k + 1) \div 2]
        /\ (k % 2 = 1) => pipeLog[k][2] = "started"
        /\ (k % 2 = 0) => pipeLog[k][2] \in {"returned", "raised"}
        /\ pipeLog[k][2] = "raised" => k = Len(pipeLog)

\* The index stage of a pipeline raised after the pull had returned, and the
\* pipeline is over with organize never called.
C24_StoppedAtIndex ==
    /\ PipelineOver
    /\ pipeLog = <<<<"pull", "started">>, <<"pull", "returned">>,
                   <<"index", "started">>, <<"index", "raised">>>>

\* --------------------------------------------------------------- C25
\* The ids of the nodes the running call works on
LoadedNodes ==
    {documents[i].uuid : i \in 1..Len(documents)}
        \cup {collections[i].uuid : i \in 1..Len(collections)}

\* C25, as the specification states it: the nodes of an organize_files call
\* are those of the records raw_dir holds at the call, whatever was added to
\* or removed from raw_dir since the last build_index.
C25_NodesAreRawDirsRecords ==
    Running => LoadedNodes = {u \in Nodes : meta[u].present}

\* --------------------------------------------------------------- C26
\* The record's parent is an id that is neither empty, nor "trash", nor a
\* loaded collection's
Orphan(rec) ==
    /\ GetParent(rec) \notin {RootId, TrashId}
    /\ ~InMap(collections, GetParent(rec))

DocumentOf(u) == documents[CHOOSE i \in 1..Len(documents) : documents[i].uuid = u]

\* C26: once the collections are placed, an orphan collection has its
\* directory directly under dest_root and a collection inside it has its own
\* under that one, as under any root-level collection; and an orphan document
\* that is in the map is directly under dest_root.
C26_OrphanIsRootLevel ==
    /\ orgPc \in {"documents", "returned"} =>
          \A i \in 1..Len(collections) :
              Orphan(collections[i]) =>
                  /\ collections[i].uuid \in DOMAIN collection_paths
                  /\ collection_paths[collections[i].uuid] =
                         Join(DestRoot, sanitize_name(collections[i].name))
                  /\ \A j \in 1..Len(collections) :
                        collections[j].parent = collections[i].uuid =>
                            /\ collections[j].uuid \in DOMAIN collection_paths
                            /\ collection_paths[collections[j].uuid] =
                                   Join(collection_paths[collections[i].uuid],
                                        sanitize_name(collections[j].name))
    /\ \A u \in DOMAIN organized_paths :
          Orphan(DocumentOf(u)) =>
              organized_paths[u] =
                  create_destination_path(DestRoot, DocumentOf(u).title,
                                          DocumentOf(u).type)

\* A call has returned that placed an orphan collection, a collection inside
\* it, and a document in that one.
C26_OrphanChainPlaced ==
    /\ orgPc = "returned"
    /\ \E i, j \in 1..Len(collections) :
          /\ Orphan(collections[i])
          /\ collections[j].parent = collections[i].uuid
          /\ Len(collection_paths[collections[j].uuid]) = 2
          /\ \E u \in DOMAIN organized_paths :
                Parent(organized_paths[u]) = collection_paths[collections[j].uuid]

\* A call has returned that placed an orphan document directly under
\* dest_root.
C26_OrphanDocumentPlaced ==
    /\ orgPc = "returned"
    /\ \E u \in DOMAIN organized_paths :
          /\ Orphan(DocumentOf(u))
          /\ Len(organized_paths[u]) = 1

\* --------------------------------------------------------------- C27
\* C27: nothing makes a call of pull_from_tablet wait for another: a caller
\* with no call running can call, a call at a file entry can decide, and a
\* call that has decided can go on, whatever the other calls are doing.
C27_NoCallWaits ==
    \A c \in Callers :
        /\ conPc[c] = "idle" => ENABLED ConCall(c)
        /\ (conPc[c] = "walk" /\ conIdx[c] \in 1..Len(FileEntries)) =>
              ENABLED ConDecide(c)
        /\ conPc[c] = "decided" => ENABLED (ConDownload(c) \/ ConSkip(c))

\* Two unforced calls have each found the same remote file missing in the
\* destination, and each has downloaded it and counted it.
C27_BothDownloaded ==
    \E f \in Files :
        \A c \in Callers :
            /\ ~conForce[c]
            /\ conReasons[c][f] = "new file"
            /\ conIdx[c] > 1
            /\ conPc[c] = "walk"
            /\ conStats[c].downloaded >= 1
            /\ f = FileEntries[1]

\* --------------------------------------------------------------- C28
\* C28, as the specification states it: when organize_files has returned,
\* every collection directory it made is still a plain directory, and every
\* path of its map exists and holds the copy made for that id.
C28_NothingMadeIsReplaced ==
    orgPc = "returned" =>
        /\ \A u \in DOMAIN collection_paths :
              /\ Exists(destFs, collection_paths[u])
              /\ destFs[collection_paths[u]] = PlainDir
        /\ \A u \in DOMAIN organized_paths :
              /\ Exists(destFs, organized_paths[u])
              /\ destFs[organized_paths[u]].owner = u

\* --------------------------------------------------------------- C29
\* How far below dest_root the path ends, each ".." going one directory up
RECURSIVE Depth(_)
Depth(p) ==
    IF p = <<>> THEN 0
    ELSE Depth(Parent(p)) + (IF p[Len(p)] = DotDot THEN -1 ELSE 1)

\* The path leaves dest_root at some segment
Escapes(p) == \E k \in 1..Len(p) : Depth(SubSeq(p, 1, k)) < 0

\* C29, as the specification states it: the directory of every collection and
\* the destination path of every document lie inside dest_root, for all
\* names, "..", "." and the empty name included.
C29_PathsInsideDestRoot ==
    plcOutput.done =>
        /\ ~Escapes(plcOutput.dest_dir)
        /\ ~Escapes(plcOutput.dest_path)

\* --------------------------------------------------------------- C30
\* No step of a call, and no change on the tablet, touches the local copy of a
\* file the tablet does not have.
C30_UnlistedFileKept ==
    \A f \in Files : ~remote[f].present => local'[f] = local[f]

\* C30: pull_from_tablet never removes or rewrites a local file that has no
\* entry in the remote tree; a file deleted on the tablet stays in the
\* destination as it was, through every later call.
C30_DeletionsNotPropagated == [][C30_UnlistedFileKept]_vars

\* A call has returned, with files handled, that was made after a file was
\* deleted on the tablet, and the destination still holds that file.
C30_DeletedFileStillThere ==
    /\ pc = "returned"
    /\ ~changedSince
    /\ changes > 0
    /\ stats.downloaded + stats.skipped > 0
    /\ \E f \in Files : ~remote[f].present /\ local[f].present

====
